---- MODULE Spec2Model ----
(***************************************************************************)
(* A model of qhub/develop.py: the develop pipeline (locate repository,    *)
(* read revision, provision the minikube cluster, build the images,        *)
(* synthesize qhub-config.yaml, render, deploy), the configuration         *)
(* synthesis of initialize_configuration and the image discovery of        *)
(* list_dockerfile_images.  Strings are TLA+ strings handled character by  *)
(* character with SubSeq; YAML documents are tagged trees.                 *)
(***************************************************************************)
EXTENDS Integers, Sequences, FiniteSets, TLC

VARIABLES
    pc,               \* position of the run inside develop / initialize_configuration
    params,           \* the arguments of develop: verbose, build_images, domain, config
    git_repo_root,    \* develop's local git_repo_root
    image_tag,        \* develop's local image_tag (= git_head_sha)
    dockerfile_paths, \* result of list_dockerfile_images, first component
    image_names,      \* result of list_dockerfile_images, second component
    built,            \* number of loop iterations of the build loop completed
    base_config,      \* the document as loaded / generated, before any override
    config,           \* the in-memory configuration document
    disk,             \* content of <develop_directory>/qhub-config.yaml
    calls,            \* every call to a collaborator, in order, with its outcome
    error             \* the exception that ended the run, "" while none

vars == <<pc, params, git_repo_root, image_tag, dockerfile_paths, image_names,
          built, base_config, config, disk, calls, error>>

-----------------------------------------------------------------------------
(* Bounds of the model.                                                    *)

\* longest enumerated directory listing
MaxFiles == 2

-----------------------------------------------------------------------------
(* Strings.                                                                *)

Char(s, i) == SubSeq(s, i, i)

StartsWith(s, p) == Len(s) >= Len(p) /\ SubSeq(s, 1, Len(p)) = p

EndsWith(s, p) == Len(s) >= Len(p) /\ SubSeq(s, Len(s) - Len(p) + 1, Len(s)) = p

\* str.rfind, 1-based; 0 when the character does not occur
RFind(s, c) ==
    LET hits == {i \in 1..Len(s) : Char(s, i) = c}
    IN  IF hits = {} THEN 0 ELSE CHOOSE i \in hits : \A j \in hits : j <= i

\* os.path.splitext(p)[1]: the text from the last dot on, unless every
\* character between the last separator and that dot is a dot
SplitExt(p) ==
    LET sepIndex == RFind(p, "/")
        dotIndex == RFind(p, ".")
    IN  IF /\ dotIndex > sepIndex
           /\ \E k \in (sepIndex + 1)..(dotIndex - 1) : Char(p, k) # "."
        THEN SubSeq(p, dotIndex, Len(p))
        ELSE ""

\* os.path.basename
BaseName(p) == SubSeq(p, RFind(p, "/") + 1, Len(p))

\* os.path.join of two components
PathJoin(a, b) ==
    IF StartsWith(b, "/") THEN b
    ELSE IF a = "" \/ EndsWith(a, "/") THEN a \o b
    ELSE a \o "/" \o b

\* str.split("/"): the pieces between the separators, empty ones included
RECURSIVE SplitPath(_)
SplitPath(p) ==
    LET hits == {i \in 1..Len(p) : Char(p, i) = "/"}
    IN  IF hits = {} THEN <<p>>
        ELSE LET first == CHOOSE i \in hits : \A j \in hits : i <= j
             IN  <<SubSeq(p, 1, first - 1)>> \o SplitPath(SubSeq(p, first + 1, Len(p)))

\* "/".join(comps)
RECURSIVE JoinPath(_)
JoinPath(comps) ==
    IF comps = <<>> THEN ""
    ELSE IF Len(comps) = 1 THEN comps[1]
    ELSE comps[1] \o "/" \o JoinPath(Tail(comps))

\* the loop of os.path.normpath over the components: "" and "." are dropped,
\* ".." removes the component before it unless there is none to remove
RECURSIVE NormComps(_, _, _)
NormComps(comps, kept, rooted) ==
    IF comps = <<>> THEN kept
    ELSE LET comp == Head(comps)
             rest == Tail(comps)
         IN  IF comp \in {"", "."} THEN NormComps(rest, kept, rooted)
             ELSE IF \/ comp # ".."
                     \/ (~rooted /\ kept = <<>>)
                     \/ (kept # <<>> /\ kept[Len(kept)] = "..")
                  THEN NormComps(rest, Append(kept, comp), rooted)
             ELSE IF kept # <<>>
                  THEN NormComps(rest, SubSeq(kept, 1, Len(kept) - 1), rooted)
             ELSE NormComps(rest, kept, rooted)

\* os.path.normpath
NormPath(p) ==
    IF p = "" THEN "."
    ELSE LET slashes == IF ~StartsWith(p, "/") THEN ""
                        ELSE IF StartsWith(p, "//") /\ ~StartsWith(p, "///") THEN "//"
                        ELSE "/"
             body == JoinPath(NormComps(SplitPath(p), <<>>, slashes # ""))
         IN  IF slashes \o body = "" THEN "." ELSE slashes \o body

\* f"{image_name}:{image_tag}"
ImageRef(image_name, tag) == image_name \o ":" \o tag

-----------------------------------------------------------------------------
(* Image discovery.                                                        *)

QHUB_IMAGE_DIRECTORY == "qhub/template/{{ cookiecutter.repo_directory }}/image/"

\* path.startswith("Dockerfile")
IsDockerfile(path) == StartsWith(path, "Dockerfile")

\* os.path.splitext(path)[1][1:]
ImageName(path) ==
    LET ext == SplitExt(path) IN SubSeq(ext, 2, Len(ext))

\* variant: each matching entry is put in front of the ones found so far
RECURSIVE SelectDockerfilesReversed(_)
SelectDockerfilesReversed(listing) ==
    IF listing = <<>> THEN <<>>
    ELSE IF IsDockerfile(Head(listing))
         THEN SelectDockerfilesReversed(Tail(listing)) \o <<Head(listing)>>
         ELSE SelectDockerfilesReversed(Tail(listing))

RECURSIVE SelectDockerfiles(_)
SelectDockerfiles(listing) ==
    IF listing = <<>> THEN <<>>
    ELSE IF IsDockerfile(Head(listing))
         THEN <<Head(listing)>> \o SelectDockerfiles(Tail(listing))
         ELSE SelectDockerfiles(Tail(listing))

\* list_dockerfile_images(directory), given os.listdir(directory)
list_dockerfile_images(directory, listing) ==
    LET sel == SelectDockerfiles(listing)
    IN  [paths |-> [i \in 1..Len(sel) |-> PathJoin(directory, sel[i])],
         names |-> [i \in 1..Len(sel) |-> ImageName(sel[i])]]

-----------------------------------------------------------------------------
(* YAML documents: tagged trees of mappings, sequences, strings and null.  *)

Null == [t |-> "null", v |-> ""]

Str(s) == [t |-> "str", v |-> s]

Map(f) == [t |-> "map", v |-> f]

List(s) == [t |-> "seq", v |-> s]

\* d[k] = x on a Python dict
Put(f, k, x) == [y \in DOMAIN f \cup {k} |-> IF y = k THEN x ELSE f[y]]

HasKey(n, k) == n.t = "map" /\ k \in DOMAIN n.v

\* one step of a path into a document: a mapping key or a sequence index
Key(s) == [k |-> "key", s |-> s, i |-> 0]

Idx(i) == [k |-> "idx", s |-> "", i |-> i]

\* yaml.dump: the document written out as its leaves, each under its path
RECURSIVE Flatten(_, _)
Flatten(n, p) ==
    IF n.t = "map" /\ DOMAIN n.v # {}
    THEN UNION {Flatten(n.v[k], Append(p, Key(k))) : k \in DOMAIN n.v}
    ELSE IF n.t = "seq" /\ DOMAIN n.v # {}
    THEN UNION {Flatten(n.v[i], Append(p, Idx(i))) : i \in DOMAIN n.v}
    ELSE {[path |-> p, leaf |-> n]}

yaml_dump(doc) == Flatten(doc, <<>>)

\* yaml.safe_load: the tree rebuilt from the leaves below path p
RECURSIVE Unflatten(_, _)
Unflatten(lines, p) ==
    LET here  == {l \in lines : l.path = p}
        below == {l \in lines : /\ Len(l.path) > Len(p)
                                /\ SubSeq(l.path, 1, Len(p)) = p}
        heads == {l.path[Len(p) + 1] : l \in below}
    IN  IF here # {} THEN (CHOOSE l \in here : TRUE).leaf
        ELSE IF \A h \in heads : h.k = "key"
        THEN Map([s \in {h.s : h \in heads} |-> Unflatten(lines, Append(p, Key(s)))])
        ELSE List([i \in 1..Cardinality(heads) |-> Unflatten(lines, Append(p, Idx(i)))])

yaml_safe_load(lines) == Unflatten(lines, <<>>)

-----------------------------------------------------------------------------
(* initialize_configuration: the overrides.                                *)

\* config["domain"] = domain; a document that is no mapping raises TypeError
SetDomainError(doc) == IF doc.t = "map" THEN "" ELSE "TypeError"

\* variant: config.setdefault("domain", domain)
SetDomainIfMissing(doc, domain) ==
    IF "domain" \in DOMAIN doc.v THEN doc ELSE Map(Put(doc.v, "domain", Str(domain)))

SetDomain(doc, domain) == Map(Put(doc.v, "domain", Str(domain)))

\* variant: every image is named after its key
DefaultImagesByKey(tag) ==
    Map([jupyterhub   |-> Str(ImageRef("jupyterhub", tag)),
         jupyterlab   |-> Str(ImageRef("jupyterlab", tag)),
         dask_worker  |-> Str(ImageRef("dask_worker", tag)),
         dask_gateway |-> Str(ImageRef("dask_gateway", tag)),
         conda_store  |-> Str(ImageRef("conda_store", tag))])

\* the mapping assigned to config["default_images"]
DefaultImages(tag) ==
    Map([jupyterhub   |-> Str(ImageRef("jupyterhub", tag)),
         jupyterlab   |-> Str(ImageRef("jupyterlab", tag)),
         dask_worker  |-> Str(ImageRef("dask-worker", tag)),
         dask_gateway |-> Str(ImageRef("dask-gateway", tag)),
         conda_store  |-> Str(ImageRef("conda-store", tag))])

\* jupyterlab_profile["kubespawner_override"]["image"] = ...: what it raises
JupyterlabProfileError(p) ==
    IF p.t # "map" THEN "TypeError"
    ELSE IF "kubespawner_override" \notin DOMAIN p.v THEN "KeyError"
    ELSE IF p.v["kubespawner_override"].t # "map" THEN "TypeError"
    ELSE ""

\* variant: a profile that already names an image keeps it
SetJupyterlabImageIfMissing(p, tag) ==
    IF "image" \in DOMAIN p.v["kubespawner_override"].v THEN p
    ELSE Map(Put(p.v, "kubespawner_override",
                 Map(Put(p.v["kubespawner_override"].v, "image",
                         Str(ImageRef("jupyterlab", tag))))))

SetJupyterlabImage(p, tag) ==
    Map(Put(p.v, "kubespawner_override",
            Map(Put(p.v["kubespawner_override"].v, "image",
                    Str(ImageRef("jupyterlab", tag))))))

\* dask_worker_profile["image"] = ...: what it raises
DaskWorkerProfileError(p) == IF p.t # "map" THEN "TypeError" ELSE ""

SetDaskWorkerImage(p, tag) ==
    Map(Put(p.v, "image", Str(ImageRef("dask-worker", tag))))

\* first error of a sequence of per-element errors, "" when there is none
FirstError(errs) ==
    LET bad == {i \in 1..Len(errs) : errs[i] # ""}
    IN  IF bad = {} THEN ""
        ELSE errs[CHOOSE i \in bad : \A j \in bad : i <= j]

\* the loop over config["profiles"]["jupyterlab"]: what it raises
JupyterlabLoopError(doc) ==
    IF "profiles" \notin DOMAIN doc.v THEN "KeyError"
    ELSE LET profiles == doc.v["profiles"] IN
    IF profiles.t # "map" THEN "TypeError"
    ELSE IF "jupyterlab" \notin DOMAIN profiles.v THEN "KeyError"
    ELSE LET jl == profiles.v["jupyterlab"] IN
    IF jl.t = "seq"
    THEN FirstError([i \in 1..Len(jl.v) |-> JupyterlabProfileError(jl.v[i])])
    ELSE IF jl.t = "null" THEN "TypeError"
    ELSE IF jl.t = "map" THEN (IF DOMAIN jl.v = {} THEN "" ELSE "TypeError")
    ELSE IF jl.v = "" THEN "" ELSE "TypeError"

\* the loop over config["profiles"]["dask_worker"].items(): what it raises
DaskWorkerLoopError(doc) ==
    LET profiles == doc.v["profiles"] IN
    IF "dask_worker" \notin DOMAIN profiles.v THEN "KeyError"
    ELSE LET dw == profiles.v["dask_worker"] IN
    IF dw.t # "map" THEN "AttributeError"
    ELSE IF \E n \in DOMAIN dw.v : DaskWorkerProfileError(dw.v[n]) # ""
    THEN "TypeError"
    ELSE ""

\* what the build_images branch raises, "" when it completes
OverrideImagesError(doc) ==
    IF JupyterlabLoopError(doc) # "" THEN JupyterlabLoopError(doc)
    ELSE DaskWorkerLoopError(doc)

\* the profiles mapping after both loops
OverrideProfiles(profiles, tag) ==
    LET jl  == profiles.v["jupyterlab"]
        dw  == profiles.v["dask_worker"]
        jl2 == IF jl.t = "seq"
               THEN List([i \in 1..Len(jl.v) |-> SetJupyterlabImage(jl.v[i], tag)])
               ELSE jl
        dw2 == Map([n \in DOMAIN dw.v |-> SetDaskWorkerImage(dw.v[n], tag)])
    IN  Map(Put(Put(profiles.v, "jupyterlab", jl2), "dask_worker", dw2))

\* the document after the build_images branch has completed
OverrideImages(doc, tag) ==
    Map(Put(Put(doc.v, "default_images", DefaultImages(tag)),
            "profiles", OverrideProfiles(doc.v["profiles"], tag)))

-----------------------------------------------------------------------------
(* The environment of a run: arguments, repository, files, directories.    *)

GitRoots == {"", "/repo"}          \* git.is_git_repo(): "" stands for None

Shas == {"4f2a9c1", "b07e6d3"}     \* git.current_sha()

Domains == {"github-actions.qhub.dev", "dev.example.org"}

Profiles == {"qhub", "dev"}        \* minikube profile

KubernetesVersion == "v1.20.2"

\* initialize.render_config("qhubdevelop", qhub_domain=domain, ...)
render_config(domain) ==
    Map([project_name |-> Str("qhubdevelop"),
         provider |-> Str("local"),
         namespace |-> Str("dev"),
         domain |-> Str(domain),
         default_images |->
             Map([jupyterhub   |-> Str("quansight/qhub-jupyterhub:v0.3.11"),
                  jupyterlab   |-> Str("quansight/qhub-jupyterlab:v0.3.11"),
                  dask_worker  |-> Str("quansight/qhub-dask-worker:v0.3.11"),
                  dask_gateway |-> Str("quansight/qhub-dask-gateway:v0.3.11"),
                  conda_store  |-> Str("quansight/qhub-conda-store:v0.3.11")]),
         profiles |->
             Map([jupyterlab |-> List(<<
                      Map([display_name |-> Str("Small Instance"),
                           kubespawner_override |->
                               Map([cpu_limit |-> Str("1"),
                                    image |-> Str("quansight/qhub-jupyterlab:v0.3.11")])]),
                      Map([display_name |-> Str("Medium Instance"),
                           kubespawner_override |->
                               Map([cpu_limit |-> Str("1.5"),
                                    image |-> Str("quansight/qhub-jupyterlab:v0.3.11")])])>>),
                  dask_worker |->
                      Map([Small |->
                               Map([worker_cores |-> Str("1"),
                                    image |-> Str("quansight/qhub-dask-worker:v0.3.11")])])])])

\* override documents found on disk, by path
FullDoc ==
    Map([domain |-> Str("hub.example.com"),
         default_images |->
             Map([jupyterhub |-> Str("registry.local/hub:1"),
                  jupyterlab |-> Str("registry.local/lab:1"),
                  dask_worker |-> Str("registry.local/worker:1")]),
         profiles |->
             Map([jupyterlab |-> List(<<
                      Map([display_name |-> Str("A"),
                           kubespawner_override |-> Map([image |-> Str("registry.local/lab:1")])]),
                      Map([display_name |-> Str("B"),
                           kubespawner_override |-> Map([mem_limit |-> Str("1G")])]),
                      Map([display_name |-> Str("C"),
                           kubespawner_override |-> Map([image |-> Str("other/lab:9")])])>>),
                  dask_worker |->
                      Map([Small |-> Map([image |-> Str("registry.local/worker:1")]),
                           Large |-> Map([worker_cores |-> Str("4")])])])])

MinimalDoc ==
    Map([profiles |-> Map([jupyterlab |-> List(<<>>), dask_worker |-> Map(<<>>)])])

NoProfilesDoc ==
    Map([domain |-> Str("hub.example.com"),
         default_images |-> Map([jupyterlab |-> Str("registry.local/lab:1")])])

NoOverrideKeyDoc ==
    Map([domain |-> Str("hub.example.com"),
         profiles |->
             Map([jupyterlab |-> List(<<Map([display_name |-> Str("A")])>>),
                  dask_worker |-> Map([Small |-> Map([image |-> Str("w:1")])])])])

BadDaskDoc ==
    Map([profiles |->
             Map([jupyterlab |-> List(<<
                      Map([kubespawner_override |-> Map([image |-> Str("lab:1")])])>>),
                  dask_worker |-> Map([Small |-> Map([image |-> Str("w:1")]),
                                       Broken |-> Null])])])

\* the config argument: "" stands for None (both take the default branch)
ConfigPaths == {"", "full.yaml", "./minimal.yaml", "conf/../noprofiles.yaml",
                "/repo/nooverride.yaml", "baddask.yaml", "null.yaml", "broken.yaml",
                "../full.yaml"}

\* os.getcwd(): the directory the command is started in
WorkingDirectory == "/repo"

\* open(base_config_path) followed by yaml.safe_load(f); the files of the
\* working directory, by absolute path
ReadConfig(path) ==
    CASE path = "/repo/full.yaml"       -> [err |-> "", doc |-> FullDoc]
      [] path = "/repo/minimal.yaml"    -> [err |-> "", doc |-> MinimalDoc]
      [] path = "/repo/noprofiles.yaml" -> [err |-> "", doc |-> NoProfilesDoc]
      [] path = "/repo/nooverride.yaml" -> [err |-> "", doc |-> NoOverrideKeyDoc]
      [] path = "/repo/baddask.yaml"    -> [err |-> "", doc |-> BadDaskDoc]
      [] path = "/repo/null.yaml"       -> [err |-> "", doc |-> Null]
      [] path = "/repo/broken.yaml"     -> [err |-> "YAMLError", doc |-> Null]
      [] OTHER                          -> [err |-> "FileNotFoundError", doc |-> Null]

\* os.path.abspath: normpath(join(os.getcwd(), path))
AbsPath(cwd, path) == NormPath(PathJoin(cwd, path))

\* entries a directory listing is drawn from
FileNames == {"Dockerfile.jupyterlab", "Dockerfile.dask-worker", "Dockerfile",
              "README.md", "jupyterlab"}

\* the image directory as the template ships it, in sorted order
FullListing == <<"Dockerfile.conda-store", "Dockerfile.dask-gateway",
                 "Dockerfile.dask-worker", "Dockerfile.jupyterhub",
                 "Dockerfile.jupyterlab", "README.md", "jupyterlab">>

\* q with its entries in the opposite order
Reversed(q) == [i \in 1..Len(q) |-> q[Len(q) + 1 - i]]

\* os.listdir gives the entries in arbitrary order: the shipped directory as
\* sorted, as the reverse of that, and in two orders a file system hands out
FullListings ==
    {FullListing,
     Reversed(FullListing),
     <<"jupyterlab", "Dockerfile.jupyterlab", "README.md", "Dockerfile.conda-store",
       "Dockerfile.jupyterhub", "Dockerfile.dask-gateway", "Dockerfile.dask-worker">>,
     <<"Dockerfile.dask-worker", "README.md", "Dockerfile.jupyterhub", "jupyterlab",
       "Dockerfile.conda-store", "Dockerfile.jupyterlab", "Dockerfile.dask-gateway">>}

Injective(q) == \A i, j \in 1..Len(q) : q[i] = q[j] => i = j

\* results of os.listdir(QHUB_IMAGE_DIRECTORY): every order of up to MaxFiles
\* entries, and the orders of the shipped directory
Listings ==
    FullListings \cup
    UNION {{q \in [1..n -> FileNames] : Injective(q)} : n \in 0..MaxFiles}

\* qhub-config.yaml as an earlier run may have left it
PreviousDisk ==
    {[exists |-> FALSE, lines |-> {}],
     [exists |-> TRUE,
      lines |-> yaml_dump(OverrideImages(render_config("old.example.org"), "0ldc0de"))]}

-----------------------------------------------------------------------------
(* Calls to collaborators and console output, as recorded in calls.        *)

Call(op, args, ok) == [op |-> op, args |-> args, ok |-> ok]

ConsoleRule(title) == Call("console.rule", <<title>>, TRUE)

ConsoleOut(text) == Call("console.print", <<text>>, TRUE)

\* utils.timer(in_progress, completed, verbose): entering the scope
TimerEnter(in_progress, verbose) ==
    IF verbose THEN <<Call("timer.in_progress", <<in_progress>>, TRUE)>> ELSE <<>>

\* utils.timer: leaving the scope without an exception
TimerExit(completed, verbose) ==
    IF verbose THEN <<Call("timer.completed", <<completed>>, TRUE)>> ELSE <<>>

\* os.path.join(git_repo_root, ".qhub", "develop")
DevelopDirectory(root) == PathJoin(PathJoin(root, ".qhub"), "develop")

\* os.path.join(directory, "qhub-config.yaml")
ConfigPath(directory) == PathJoin(directory, "qhub-config.yaml")

develop_directory == DevelopDirectory(git_repo_root)

Raise(kind) == pc' = "failed" /\ error' = kind

Goto(next) == pc' = next /\ error' = ""

-----------------------------------------------------------------------------
(* develop: one action per call to a collaborator.                         *)

Init ==
    /\ pc = "is_git_repo"
    /\ params \in [verbose : BOOLEAN, build_images : BOOLEAN, profile : Profiles,
                   domain : Domains, config : ConfigPaths]
    /\ git_repo_root = ""
    /\ image_tag = ""
    /\ dockerfile_paths = <<>>
    /\ image_names = <<>>
    /\ built = 0
    /\ base_config = Null
    /\ config = Null
    /\ disk \in PreviousDisk
    /\ calls = <<>>
    /\ error = ""

\* variant: the result of git.is_git_repo is used without the None test
IsGitRepoUnchecked ==
    /\ pc = "is_git_repo"
    /\ \E root \in GitRoots :
        /\ calls' = Append(calls, Call("git.is_git_repo", <<root>>, TRUE))
        /\ git_repo_root' = root
        /\ Goto("current_sha")
    /\ UNCHANGED <<params, image_tag, dockerfile_paths, image_names, built,
                   base_config, config, disk>>

\* git_repo_root = git.is_git_repo(); None raises QHubError
IsGitRepo ==
    /\ pc = "is_git_repo"
    /\ \E root \in GitRoots :
        /\ calls' = Append(calls, Call("git.is_git_repo", <<root>>, TRUE))
        /\ git_repo_root' = root
        /\ IF root = ""
           THEN Raise("QHubError: QHub develop required to run within QHub git repository")
           ELSE Goto("current_sha")
    /\ UNCHANGED <<params, image_tag, dockerfile_paths, image_names, built,
                   base_config, config, disk>>

\* git_head_sha = git.current_sha(); image_tag = git_head_sha
CurrentSha ==
    /\ pc = "current_sha"
    /\ \E sha \in Shas :
        /\ calls' = Append(calls, Call("git.current_sha", <<sha>>, TRUE))
        /\ image_tag' = sha
    /\ Goto("minikube_start")
    /\ UNCHANGED <<params, git_repo_root, dockerfile_paths, image_names, built,
                   base_config, config, disk>>

\* console.rule, entering the timer, minikube.start(...)
MinikubeStart ==
    /\ pc = "minikube_start"
    /\ \E ok \in BOOLEAN :
        /\ calls' = calls \o <<ConsoleRule("Starting Minikube cluster")>>
                          \o TimerEnter("Creating Minikube cluster", params.verbose)
                          \o <<Call("minikube.start",
                                    <<KubernetesVersion, params.profile>>, ok)>>
        /\ IF ok THEN Goto("minikube_status") ELSE Raise("minikube.start")
    /\ UNCHANGED <<params, git_repo_root, image_tag, dockerfile_paths, image_names,
                   built, base_config, config, disk>>

\* variant: the result of minikube.status is not looked at
StatusIgnored(healthy) == [pc |-> "configure_metallb", error |-> ""]

\* a healthy cluster goes on, an unhealthy one raises QHubError
StatusOutcome(healthy) ==
    IF healthy
    THEN [pc |-> "configure_metallb", error |-> ""]
    ELSE [pc |-> "failed", error |-> "QHubError: Minikube cluster failed to start"]

\* if not minikube.status(profile=profile): raise ...
MinikubeStatus ==
    /\ pc = "minikube_status"
    /\ \E healthy \in BOOLEAN :
        /\ calls' = Append(calls, Call("minikube.status", <<params.profile>>, healthy))
        /\ pc' = StatusOutcome(healthy).pc
        /\ error' = StatusOutcome(healthy).error
    /\ UNCHANGED <<params, git_repo_root, image_tag, dockerfile_paths, image_names,
                   built, base_config, config, disk>>

\* minikube.configure_metallb(profile=profile)
ConfigureMetallb ==
    /\ pc = "configure_metallb"
    /\ \E ok \in BOOLEAN :
        /\ calls' = Append(calls, Call("minikube.configure_metallb", <<params.profile>>, ok))
        /\ IF ok THEN Goto("addons_enable") ELSE Raise("minikube.configure_metallb")
    /\ UNCHANGED <<params, git_repo_root, image_tag, dockerfile_paths, image_names,
                   built, base_config, config, disk>>

\* minikube.addons_enable("metallb", profile=profile), leaving the timer
AddonsEnable ==
    /\ pc = "addons_enable"
    /\ \E ok \in BOOLEAN :
        /\ calls' = calls \o <<Call("minikube.addons_enable",
                                    <<"metallb", params.profile>>, ok)>>
                          \o (IF ok THEN TimerExit("Created Minikube cluster", params.verbose)
                              ELSE <<>>)
        /\ IF ok THEN Goto("build_stage") ELSE Raise("minikube.addons_enable")
    /\ UNCHANGED <<params, git_repo_root, image_tag, dockerfile_paths, image_names,
                   built, base_config, config, disk>>

\* variant: a directory without definitions is treated as a failure
LoopNextNeedsOne(done, total) ==
    IF total = 0 THEN "failed" ELSE IF done < total THEN "image_build" ELSE "initialize"

\* where the build loop stands after done of total iterations
LoopNext(done, total) == IF done < total THEN "image_build" ELSE "initialize"

\* variant: the image directory is scanned whatever build_images says
DiscoverAlways ==
    /\ pc = "build_stage"
    /\ \/ \E listing \in Listings :
            LET found == list_dockerfile_images(QHUB_IMAGE_DIRECTORY, listing) IN
            /\ calls' = calls \o <<ConsoleRule("Building Docker images"),
                                   Call("os.listdir", <<QHUB_IMAGE_DIRECTORY, listing>>, TRUE)>>
            /\ dockerfile_paths' = found.paths
            /\ image_names' = found.names
            /\ Goto(LoopNext(0, Len(found.names)))
       \/ /\ calls' = calls \o <<ConsoleRule("Building Docker images"),
                                 Call("os.listdir", <<QHUB_IMAGE_DIRECTORY, <<>>>>, FALSE)>>
          /\ Raise("FileNotFoundError")
          /\ UNCHANGED <<dockerfile_paths, image_names>>
    /\ UNCHANGED <<params, git_repo_root, image_tag, built, base_config, config, disk>>

\* if build_images: console.rule, list_dockerfile_images(QHUB_IMAGE_DIRECTORY)
Discover ==
    /\ pc = "build_stage"
    /\ params.build_images
    /\ \/ \E listing \in Listings :
            LET found == list_dockerfile_images(QHUB_IMAGE_DIRECTORY, listing) IN
            /\ calls' = calls \o <<ConsoleRule("Building Docker images"),
                                   Call("os.listdir", <<QHUB_IMAGE_DIRECTORY, listing>>, TRUE)>>
            /\ dockerfile_paths' = found.paths
            /\ image_names' = found.names
            /\ Goto(LoopNext(0, Len(found.names)))
       \/ /\ calls' = calls \o <<ConsoleRule("Building Docker images"),
                                 Call("os.listdir", <<QHUB_IMAGE_DIRECTORY, <<>>>>, FALSE)>>
          /\ Raise("FileNotFoundError")
          /\ UNCHANGED <<dockerfile_paths, image_names>>
    /\ UNCHANGED <<params, git_repo_root, image_tag, built, base_config, config, disk>>

\* build_images is false: the build stage is skipped
SkipBuild ==
    /\ pc = "build_stage"
    /\ ~params.build_images
    /\ Goto("initialize")
    /\ UNCHANGED <<params, git_repo_root, image_tag, dockerfile_paths, image_names,
                   built, base_config, config, disk, calls>>

\* variant: a failed build is tried again
BuildRetried(ok, done, total) ==
    IF ok
    THEN [pc |-> LoopNext(done + 1, total), built |-> done + 1, error |-> ""]
    ELSE [pc |-> "image_build", built |-> done, error |-> ""]

\* variant: a failed build is swallowed and the loop goes on
BuildFailureSwallowed(ok, done, total) ==
    [pc |-> LoopNext(done + 1, total), built |-> done + 1, error |-> ""]

\* a successful build goes on with the loop, a failed one propagates
BuildOutcome(ok, done, total) ==
    IF ok
    THEN [pc |-> LoopNext(done + 1, total), built |-> done + 1, error |-> ""]
    ELSE [pc |-> "failed", built |-> done, error |-> "minikube.image_build"]

\* variant: the images are tagged with a fixed tag
LatestTag == "latest"

\* the image_tag argument of minikube.image_build
BuildTag == image_tag

\* the timer messages of one build
BuildingMessage(path, image) ==
    "Building " \o BaseName(path) \o " image \"" \o image \o "\""

BuiltMessage(path, image) ==
    "Built " \o BaseName(path) \o " image \"" \o image \o "\""

\* one iteration of the loop over zip(dockerfile_paths, image_names)
ImageBuild ==
    /\ pc = "image_build"
    /\ built < Len(image_names)
    /\ LET dockerfile_path == dockerfile_paths[built + 1]
           image_name == image_names[built + 1]
           image == ImageRef(image_name, image_tag)
       IN  \E ok \in BOOLEAN :
            /\ calls' = calls
                  \o TimerEnter(BuildingMessage(dockerfile_path, image), params.verbose)
                  \o <<Call("minikube.image_build",
                            <<dockerfile_path, QHUB_IMAGE_DIRECTORY, image_name,
                              BuildTag, params.profile>>, ok)>>
                  \o (IF ok
                      THEN TimerExit(BuiltMessage(dockerfile_path, image), params.verbose)
                      ELSE <<>>)
            /\ built' = BuildOutcome(ok, built, Len(image_names)).built
            /\ pc' = BuildOutcome(ok, built, Len(image_names)).pc
            /\ error' = BuildOutcome(ok, built, Len(image_names)).error
    /\ UNCHANGED <<params, git_repo_root, image_tag, dockerfile_paths, image_names,
                   base_config, config, disk>>

-----------------------------------------------------------------------------
(* initialize_configuration, as called from develop.                       *)

\* variant: the configuration is stamped with the symbolic revision
HeadTag == "HEAD"

\* the image_tag argument of initialize_configuration
ConfigTag == image_tag

\* console.rule("Installing QHub"); the call; loading or generating the base
ICLoad ==
    /\ pc = "initialize"
    /\ LET entry == <<ConsoleRule("Installing QHub"),
                      Call("initialize_configuration",
                           <<develop_directory, ConfigTag, params.build_images,
                             params.domain, params.config>>, TRUE)>>
       IN  IF params.config # ""
           THEN LET path == AbsPath(WorkingDirectory, params.config)
                    read == ReadConfig(path)
                IN  /\ calls' = calls \o entry
                          \o <<ConsoleOut("Using base configuration at " \o path),
                               Call("yaml.safe_load", <<path>>, read.err = "")>>
                    /\ base_config' = read.doc
                    /\ config' = read.doc
                    /\ IF read.err = "" THEN Goto("ic_domain") ELSE Raise(read.err)
           ELSE /\ calls' = calls \o entry
                      \o <<ConsoleOut("Generating default configuration"),
                           Call("initialize.render_config",
                                <<"qhubdevelop", params.domain>>, TRUE)>>
                /\ base_config' = render_config(params.domain)
                /\ config' = render_config(params.domain)
                /\ Goto("ic_domain")
    /\ UNCHANGED <<params, git_repo_root, image_tag, dockerfile_paths, image_names,
                   built, disk>>

\* config["domain"] = domain
ICDomain ==
    /\ pc = "ic_domain"
    /\ IF SetDomainError(config) # ""
       THEN /\ Raise(SetDomainError(config))
            /\ config' = config
       ELSE /\ Goto("ic_images")
            /\ config' = SetDomain(config, params.domain)
    /\ UNCHANGED <<params, git_repo_root, image_tag, dockerfile_paths, image_names,
                   built, base_config, disk, calls>>

\* the documents the build_images branch can leave behind when it raises:
\* default_images is replaced, the JupyterLab profiles before the failing one are
\* overridden, and (the order of a mapping not being modelled) any of the Dask
\* worker profiles that can be overridden
PartialOverrides(doc, tag) ==
    LET d1 == Map(Put(doc.v, "default_images", DefaultImages(tag))) IN
    IF JupyterlabLoopError(doc) # ""
    THEN IF HasKey(doc, "profiles") /\ HasKey(doc.v["profiles"], "jupyterlab")
            /\ doc.v["profiles"].v["jupyterlab"].t = "seq"
         THEN LET jl == doc.v["profiles"].v["jupyterlab"].v
                  stop == CHOOSE i \in 1..Len(jl) :
                              /\ JupyterlabProfileError(jl[i]) # ""
                              /\ \A j \in 1..(i - 1) : JupyterlabProfileError(jl[j]) = ""
                  jl2 == [i \in 1..Len(jl) |->
                              IF i < stop THEN SetJupyterlabImage(jl[i], tag) ELSE jl[i]]
              IN  {Map(Put(d1.v, "profiles",
                           Map(Put(doc.v["profiles"].v, "jupyterlab", List(jl2)))))}
         ELSE {d1}
    ELSE LET profiles == doc.v["profiles"]
             jl == profiles.v["jupyterlab"]
             jl2 == IF jl.t = "seq"
                    THEN List([i \in 1..Len(jl.v) |-> SetJupyterlabImage(jl.v[i], tag)])
                    ELSE jl
             p1 == Put(profiles.v, "jupyterlab", jl2)
         IN  IF HasKey(profiles, "dask_worker") /\ profiles.v["dask_worker"].t = "map"
             THEN LET dw == profiles.v["dask_worker"].v
                      good == {n \in DOMAIN dw : DaskWorkerProfileError(dw[n]) = ""}
                  IN  {Map(Put(d1.v, "profiles",
                               Map(Put(p1, "dask_worker",
                                       Map([n \in DOMAIN dw |->
                                               IF n \in S THEN SetDaskWorkerImage(dw[n], tag)
                                               ELSE dw[n]])))))
                       : S \in SUBSET good}
             ELSE {Map(Put(d1.v, "profiles", Map(p1)))}

\* variant: the images are overridden whenever the document allows it
ImagesResultAlways(doc, tag, build_images) ==
    IF build_images \/ OverrideImagesError(doc) = "" THEN OverrideImages(doc, tag) ELSE doc

\* the document the override step hands on when it does not raise
ImagesResult(doc, tag, build_images) ==
    IF build_images THEN OverrideImages(doc, tag) ELSE doc

\* variant: an error of the override step is swallowed and the document is written
ICImagesPersistAnyway ==
    /\ pc = "ic_images"
    /\ Goto("ic_persist")
    /\ IF params.build_images /\ OverrideImagesError(config) # ""
       THEN config' \in PartialOverrides(config, ConfigTag)
       ELSE config' = ImagesResult(config, ConfigTag, params.build_images)
    /\ UNCHANGED <<params, git_repo_root, image_tag, dockerfile_paths, image_names,
                   built, base_config, disk, calls>>

\* variant: a document without profiles has only its default_images replaced
ICImagesSkipMissing ==
    /\ pc = "ic_images"
    /\ IF params.build_images /\ ~HasKey(config, "profiles")
       THEN /\ Goto("ic_persist")
            /\ config' = Map(Put(config.v, "default_images", DefaultImages(ConfigTag)))
       ELSE IF params.build_images /\ OverrideImagesError(config) # ""
       THEN /\ Raise(OverrideImagesError(config))
            /\ config' \in PartialOverrides(config, ConfigTag)
       ELSE /\ Goto("ic_persist")
            /\ config' = ImagesResult(config, ConfigTag, params.build_images)
    /\ UNCHANGED <<params, git_repo_root, image_tag, dockerfile_paths, image_names,
                   built, base_config, disk, calls>>

\* if build_images: default_images and every profile image are replaced
ICImages ==
    /\ pc = "ic_images"
    /\ IF params.build_images /\ OverrideImagesError(config) # ""
       THEN /\ Raise(OverrideImagesError(config))
            /\ config' \in PartialOverrides(config, ConfigTag)
       ELSE /\ Goto("ic_persist")
            /\ config' = ImagesResult(config, ConfigTag, params.build_images)
    /\ UNCHANGED <<params, git_repo_root, image_tag, dockerfile_paths, image_names,
                   built, base_config, disk, calls>>

\* console.print, os.makedirs, yaml.dump to qhub-config.yaml, return config
ICPersist ==
    /\ pc = "ic_persist"
    /\ LET path == ConfigPath(develop_directory)
           said == ConsoleOut("Generated QHub configuration at path=" \o path)
       IN  \/ /\ calls' = calls \o <<said,
                                     Call("os.makedirs", <<develop_directory>>, TRUE),
                                     Call("yaml.dump", <<path, config>>, TRUE)>>
              /\ disk' = [exists |-> TRUE, lines |-> yaml_dump(config)]
              /\ Goto("render_template")
           \/ /\ calls' = calls \o <<said,
                                     Call("os.makedirs", <<develop_directory>>, FALSE)>>
              /\ disk' = disk
              /\ Raise("OSError")
    /\ UNCHANGED <<params, git_repo_root, image_tag, dockerfile_paths, image_names,
                   built, base_config, config>>

-----------------------------------------------------------------------------
(* develop: render, deploy, closing message.                               *)

\* variant: a failed rendering is not noticed
RenderFailureIgnored(ok) == [pc |-> "deploy_configuration", error |-> ""]

\* a failed rendering propagates, a successful one goes on to deployment
RenderOutcome(ok) ==
    IF ok
    THEN [pc |-> "deploy_configuration", error |-> ""]
    ELSE [pc |-> "failed", error |-> "render.render_template"]

\* render.render_template(develop_directory, <config path>, force=True) in its timer
RenderTemplate ==
    /\ pc = "render_template"
    /\ LET dir == develop_directory IN
       \E ok \in BOOLEAN :
        /\ calls' = calls
              \o TimerEnter("Rendering qhub-config.yaml terraform files to directory=" \o dir,
                            params.verbose)
              \o <<Call("render.render_template", <<dir, ConfigPath(dir), "force">>, ok)>>
              \o (IF ok
                  THEN TimerExit("Rendered qhub-config.yaml terraform files to directory=" \o dir,
                                 params.verbose)
                  ELSE <<>>)
        /\ pc' = RenderOutcome(ok).pc
        /\ error' = RenderOutcome(ok).error
    /\ UNCHANGED <<params, git_repo_root, image_tag, dockerfile_paths, image_names,
                   built, base_config, config, disk>>

\* variant: the deployer is handed the document as it was loaded
DeployConfigurationStale ==
    /\ pc = "deploy_configuration"
    /\ \E ok \in BOOLEAN :
        /\ calls' = calls
              \o <<Call("utils.change_directory", <<develop_directory>>, TRUE),
                   Call("deploy.deploy_configuration", <<base_config, params.verbose>>, ok),
                   Call("utils.change_directory.exit", <<develop_directory>>, TRUE)>>
        /\ IF ok THEN Goto("finish") ELSE Raise("deploy.deploy_configuration")
    /\ UNCHANGED <<params, git_repo_root, image_tag, dockerfile_paths, image_names,
                   built, base_config, config, disk>>

\* variant: a failed deployment deletes the cluster before the error propagates
DeployConfigurationWithTeardown ==
    /\ pc = "deploy_configuration"
    /\ \E ok \in BOOLEAN :
        /\ calls' = calls
              \o <<Call("utils.change_directory", <<develop_directory>>, TRUE),
                   Call("deploy.deploy_configuration", <<config, params.verbose>>, ok),
                   Call("utils.change_directory.exit", <<develop_directory>>, TRUE)>>
              \o (IF ok THEN <<>> ELSE <<Call("minikube.delete", <<params.profile>>, TRUE)>>)
        /\ IF ok THEN Goto("finish") ELSE Raise("deploy.deploy_configuration")
    /\ UNCHANGED <<params, git_repo_root, image_tag, dockerfile_paths, image_names,
                   built, base_config, config, disk>>

\* with utils.change_directory(develop_directory): deploy.deploy_configuration(config, ...)
DeployConfiguration ==
    /\ pc = "deploy_configuration"
    /\ \E ok \in BOOLEAN :
        /\ calls' = calls
              \o <<Call("utils.change_directory", <<develop_directory>>, TRUE),
                   Call("deploy.deploy_configuration", <<config, params.verbose>>, ok),
                   Call("utils.change_directory.exit", <<develop_directory>>, TRUE)>>
        /\ IF ok THEN Goto("finish") ELSE Raise("deploy.deploy_configuration")
    /\ UNCHANGED <<params, git_repo_root, image_tag, dockerfile_paths, image_names,
                   built, base_config, config, disk>>

\* paths minikube.download_minikube_binary() may return
MinikubePaths == {"/bin/minikube", "/root/.qhub/bin/minikube"}

\* the message printed when the deployment is up
ClosingMessage(minikube_path, profile) ==
    "Development documentation https://docs.qhub.dev/en/stable/source/dev_guide/\n"
    \o "When done with development delete the minikube cluster via \""
    \o minikube_path \o " delete --profile=" \o profile \o "\"\n"

\* minikube_path = minikube.download_minikube_binary(); console.print(...)
Finish ==
    /\ pc = "finish"
    /\ \/ \E minikube_path \in MinikubePaths :
            /\ calls' = calls
                  \o <<Call("minikube.download_minikube_binary", <<>>, TRUE),
                       ConsoleOut(ClosingMessage(minikube_path, params.profile))>>
            /\ Goto("done")
       \/ /\ calls' = calls \o <<Call("minikube.download_minikube_binary", <<>>, FALSE)>>
          /\ Raise("minikube.download_minikube_binary")
    /\ UNCHANGED <<params, git_repo_root, image_tag, dockerfile_paths, image_names,
                   built, base_config, config, disk>>

Next ==
    \/ IsGitRepo
    \/ CurrentSha
    \/ MinikubeStart
    \/ MinikubeStatus
    \/ ConfigureMetallb
    \/ AddonsEnable
    \/ Discover
    \/ SkipBuild
    \/ ImageBuild
    \/ ICLoad
    \/ ICDomain
    \/ ICImages
    \/ ICPersist
    \/ RenderTemplate
    \/ DeployConfiguration
    \/ Finish

Spec == Init /\ [][Next]_vars

-----------------------------------------------------------------------------
(* Reading the record of a run.                                            *)

Ops(op) == {i \in 1..Len(calls) : calls[i].op = op}

OkOps(op) == {i \in Ops(op) : calls[i].ok}

FailedOps(op) == {i \in Ops(op) : ~calls[i].ok}

\* initialize_configuration has written qhub-config.yaml and returned
Synthesized == OkOps("yaml.dump") # {}

\* the image_tag argument initialize_configuration was called with
SynthesisTag == calls[CHOOSE i \in Ops("initialize_configuration") : TRUE].args[2]

\* the domain argument initialize_configuration was called with
SynthesisDomain == calls[CHOOSE i \in Ops("initialize_configuration") : TRUE].args[4]

\* the revision git.current_sha returned
RevisionRead == calls[CHOOSE i \in Ops("git.current_sha") : TRUE].args[1]

\* qhub-config.yaml read back
PersistedDoc == yaml_safe_load(disk.lines)

Absent == [t |-> "absent", v |-> ""]

DefaultImagesOf(doc) ==
    IF HasKey(doc, "default_images") THEN doc.v["default_images"] ELSE Absent

\* the image field of every JupyterLab profile, in order
JupyterlabImages(doc) ==
    IF /\ HasKey(doc, "profiles")
       /\ HasKey(doc.v["profiles"], "jupyterlab")
       /\ doc.v["profiles"].v["jupyterlab"].t = "seq"
    THEN LET jl == doc.v["profiles"].v["jupyterlab"].v
         IN  [i \in 1..Len(jl) |->
                 IF /\ HasKey(jl[i], "kubespawner_override")
                    /\ HasKey(jl[i].v["kubespawner_override"], "image")
                 THEN jl[i].v["kubespawner_override"].v["image"]
                 ELSE Absent]
    ELSE <<>>

\* the image field of every Dask worker profile, by profile name
DaskWorkerImages(doc) ==
    IF /\ HasKey(doc, "profiles")
       /\ HasKey(doc.v["profiles"], "dask_worker")
       /\ doc.v["profiles"].v["dask_worker"].t = "map"
    THEN LET dw == doc.v["profiles"].v["dask_worker"].v
         IN  [n \in DOMAIN dw |-> IF HasKey(dw[n], "image") THEN dw[n].v["image"] ELSE Absent]
    ELSE <<>>

\* every image reference of a document
ImageNodes(doc) ==
    (IF DefaultImagesOf(doc).t = "map"
     THEN {DefaultImagesOf(doc).v[k] : k \in DOMAIN DefaultImagesOf(doc).v}
     ELSE {})
    \cup {JupyterlabImages(doc)[i] : i \in DOMAIN JupyterlabImages(doc)}
    \cup {DaskWorkerImages(doc)[n] : n \in DOMAIN DaskWorkerImages(doc)}

HasTag(node, tag) == node.t = "str" /\ EndsWith(node.v, ":" \o tag)

\* the images the successful minikube.image_build calls of the run produced
BuiltImages ==
    {ImageRef(calls[i].args[3], calls[i].args[4]) : i \in OkOps("minikube.image_build")}

\* the image names the directory listing of the run holds a definition for
DefinedImageNames ==
    UNION {{ImageName(calls[i].args[2][j]) :
                j \in {m \in 1..Len(calls[i].args[2]) : IsDockerfile(calls[i].args[2][m])}}
           : i \in OkOps("os.listdir")}

FiveKeys == {"jupyterhub", "jupyterlab", "dask_worker", "dask_gateway", "conda_store"}

\* a key with every underscore turned into a hyphen
RECURSIVE Hyphenated(_)
Hyphenated(s) ==
    IF s = "" THEN ""
    ELSE (IF Char(s, 1) = "_" THEN "-" ELSE Char(s, 1)) \o Hyphenated(SubSeq(s, 2, Len(s)))

StageOps == {"minikube.configure_metallb", "minikube.addons_enable", "os.listdir",
             "minikube.image_build", "initialize_configuration",
             "render.render_template", "deploy.deploy_configuration"}

-----------------------------------------------------------------------------
(* Properties.                                                             *)

\* C1: every minikube.image_build call comes after a minikube.start that returned and
\* a later minikube.status that reported healthy, both for the profile of the build.
C1_BuildAfterHealthyCluster ==
    \A b \in Ops("minikube.image_build") :
        \E st \in OkOps("minikube.start"), h \in OkOps("minikube.status") :
            /\ st < h /\ h < b
            /\ calls[st].args[2] = calls[b].args[5]
            /\ calls[h].args[1] = calls[b].args[5]

C1_Witness ==
    /\ Cardinality(Ops("minikube.image_build")) >= 2
    /\ params.profile = "dev"

\* C2: the revision is read at most once, develop's image_tag is that revision from
\* then on, and initialize_configuration and every minikube.image_build call of the
\* run are passed exactly that value.
C2_OneBuildIdentifier ==
    /\ Cardinality(Ops("git.current_sha")) <= 1
    /\ Ops("git.current_sha") # {} => image_tag = RevisionRead
    /\ \A i \in Ops("initialize_configuration") :
        /\ Ops("git.current_sha") # {}
        /\ calls[i].args[2] = RevisionRead
        /\ \A b \in Ops("minikube.image_build") : calls[b].args[4] = calls[i].args[2]
    /\ \A b \in Ops("minikube.image_build") :
        /\ Ops("git.current_sha") # {}
        /\ calls[b].args[4] = RevisionRead

C2_Witness ==
    /\ Ops("initialize_configuration") # {}
    /\ Cardinality(OkOps("minikube.image_build")) >= 2

\* C3: once minikube.status has reported unhealthy the run has failed with the
\* cluster-start error and no load-balancer, discovery, build, synthesis, render or
\* deploy operation is in the record of the run.
C3_UnhealthyAborts ==
    FailedOps("minikube.status") # {} =>
        /\ pc = "failed"
        /\ error = "QHubError: Minikube cluster failed to start"
        /\ \A i \in 1..Len(calls) : calls[i].op \notin StageOps

C3_Witness ==
    /\ FailedOps("minikube.status") # {}
    /\ OkOps("minikube.start") # {}
    /\ params.build_images

\* C4 as stated: with build enabled every image reference of the synthesized
\* configuration is an image a successful minikube.image_build of the run produced.
C4_AllReferencesBuilt ==
    (Synthesized /\ params.build_images) =>
        \A n \in ImageNodes(config) : n.t = "str" /\ n.v \in BuiltImages

\* C4 amended: with build enabled every image reference of the synthesized
\* configuration is <name>:<revision of the run>, and it is an image the run built
\* whenever the image directory holds a definition for <name>.
C4_ReferencesBuiltWhenDefined ==
    (Synthesized /\ params.build_images) =>
        \A n \in ImageNodes(config) :
            /\ HasTag(n, RevisionRead)
            /\ LET name == SubSeq(n.v, 1, Len(n.v) - Len(RevisionRead) - 1)
               IN  name \in DefinedImageNames => n.v \in BuiltImages

C4_Witness ==
    /\ Synthesized
    /\ params.build_images
    /\ Cardinality(BuiltImages) = 5
    /\ \A n \in ImageNodes(config) : n.v \in BuiltImages

\* C5: after initialize_configuration has returned with build_images true and tag T,
\* every default_images value and every JupyterLab and Dask worker profile image, in
\* the returned document and in the file read back, ends with ":T".
C5_AllImagesCarryTag ==
    (Synthesized /\ params.build_images) =>
        \A d \in {config, PersistedDoc} :
            /\ DefaultImagesOf(d).t = "map"
            /\ DOMAIN DefaultImagesOf(d).v # {}
            /\ \A n \in ImageNodes(d) : HasTag(n, SynthesisTag)
            /\ Len(JupyterlabImages(d)) = Len(JupyterlabImages(base_config))
            /\ DOMAIN DaskWorkerImages(d) = DOMAIN DaskWorkerImages(base_config)

C5_Witness ==
    /\ Synthesized
    /\ params.build_images
    /\ Len(JupyterlabImages(base_config)) = 3
    /\ \E i \in 1..3 : JupyterlabImages(base_config)[i] = Absent
    /\ \E i \in 1..3 : JupyterlabImages(base_config)[i] = Str("other/lab:9")
    /\ Cardinality(DOMAIN DaskWorkerImages(base_config)) = 2

\* C6: after initialize_configuration has returned with build_images false, the
\* returned document and the file read back have the default_images and the profile
\* images of the base document, and differ from the base in the domain key at most.
C6_NoBuildLeavesImages ==
    (Synthesized /\ ~params.build_images) =>
        \A d \in {config, PersistedDoc} :
            /\ DefaultImagesOf(d) = DefaultImagesOf(base_config)
            /\ JupyterlabImages(d) = JupyterlabImages(base_config)
            /\ DaskWorkerImages(d) = DaskWorkerImages(base_config)
            /\ DOMAIN d.v \ {"domain"} = DOMAIN base_config.v \ {"domain"}
            /\ \A k \in DOMAIN d.v \ {"domain"} : d.v[k] = base_config.v[k]

C6_Witness ==
    /\ Synthesized
    /\ ~params.build_images
    /\ base_config = FullDoc
    /\ config # base_config

\* C7: after initialize_configuration has returned, the domain of the returned
\* document and of the file read back is the domain argument of the call.
C7_DomainIsArgument ==
    Synthesized =>
        \A d \in {config, PersistedDoc} :
            HasKey(d, "domain") /\ d.v["domain"] = Str(SynthesisDomain)

C7_Witness ==
    /\ Synthesized
    /\ params.config # ""
    /\ HasKey(base_config, "domain")
    /\ base_config.v["domain"] # Str(params.domain)

\* C8 as stated: with build enabled the value under each of the five keys k of
\* default_images is k, a colon and the build identifier.
C8_ValueIsKeyAndTag ==
    (Synthesized /\ params.build_images) =>
        \A k \in FiveKeys :
            /\ HasKey(DefaultImagesOf(config), k)
            /\ DefaultImagesOf(config).v[k] = Str(ImageRef(k, SynthesisTag))

\* C8 amended: with build enabled default_images has exactly the five keys, and the
\* value under key k is k with its underscores turned into hyphens, a colon and the
\* build identifier.
C8_ValueIsImageNameAndTag ==
    (Synthesized /\ params.build_images) =>
        \A d \in {config, PersistedDoc} :
            /\ DefaultImagesOf(d).t = "map"
            /\ DOMAIN DefaultImagesOf(d).v = FiveKeys
            /\ \A k \in FiveKeys :
                DefaultImagesOf(d).v[k] = Str(ImageRef(Hyphenated(k), SynthesisTag))

C8_Witness ==
    /\ Synthesized
    /\ params.build_images
    /\ DefaultImagesOf(base_config) # Absent
    /\ DOMAIN DefaultImagesOf(base_config).v # FiveKeys
    /\ DefaultImagesOf(config).v["dask_worker"] = Str("dask-worker:" \o image_tag)

\* C9: deploy_configuration is called only after a render_template that returned,
\* render_template only after qhub-config.yaml was written, and never after a
\* render_template that failed.
C9_RenderBeforeDeploy ==
    /\ \A d \in Ops("deploy.deploy_configuration") :
        \E r \in OkOps("render.render_template") : r < d
    /\ \A r \in Ops("render.render_template") :
        \E w \in OkOps("yaml.dump") : w < r /\ calls[w].args[1] = calls[r].args[2]
    /\ FailedOps("render.render_template") # {} =>
        /\ Ops("deploy.deploy_configuration") = {}
        /\ pc = "failed"

C9_Witness ==
    /\ OkOps("deploy.deploy_configuration") # {}
    /\ OkOps("render.render_template") # {}
    /\ pc = "done"

\* C10: a failed minikube.image_build ends the run there: the record holds no later
\* image_build, completion message, initialize_configuration, render_template or
\* deploy_configuration, and the run has failed with the build's error.
C10_BuildFailureAborts ==
    \A b \in FailedOps("minikube.image_build") :
        /\ pc = "failed"
        /\ error = "minikube.image_build"
        /\ \A j \in (b + 1)..Len(calls) :
            calls[j].op \notin {"minikube.image_build", "timer.completed",
                                "initialize_configuration", "render.render_template",
                                "deploy.deploy_configuration"}

C10_Witness ==
    /\ FailedOps("minikube.image_build") # {}
    /\ params.verbose
    /\ built = 1
    /\ Len(image_names) > 2


\* the listing os.listdir returned in this run holds no definition file
EmptyDiscovery ==
    \E i \in OkOps("os.listdir") :
        \A m \in 1..Len(calls[i].args[2]) : ~StartsWith(calls[i].args[2][m], "Dockerfile")

\* C11: with build enabled and a listing without definition files no
\* minikube.image_build is called, nothing is raised by the build stage, and the next
\* thing develop does is call initialize_configuration.
C11_EmptyDirectoryContinues ==
    EmptyDiscovery =>
        LET i == CHOOSE j \in OkOps("os.listdir") : TRUE IN
        /\ params.build_images
        /\ Ops("minikube.image_build") = {}
        /\ image_names = <<>> /\ dockerfile_paths = <<>>
        /\ FailedOps("os.listdir") = {}
        /\ IF Len(calls) = i
           THEN pc = "initialize" /\ error = ""
           ELSE /\ calls[i + 1] = ConsoleRule("Installing QHub")
                /\ calls[i + 2].op = "initialize_configuration"

C11_Witness ==
    /\ EmptyDiscovery
    /\ Len(calls[CHOOSE j \in OkOps("os.listdir") : TRUE].args[2]) = 2
    /\ OkOps("render.render_template") # {}
    /\ OkOps("deploy.deploy_configuration") # {}
    /\ pc = "done"


\* the override document was loaded and is a mapping without the profiles key
LoadedWithoutProfiles ==
    /\ OkOps("yaml.safe_load") # {}
    /\ base_config.t = "map"
    /\ "profiles" \notin DOMAIN base_config.v

\* C12: with build_images true and an override document without the profiles key,
\* initialize_configuration ends in KeyError: it writes and returns no document, and
\* neither render_template nor deploy_configuration is called.
C12_MissingProfilesFails ==
    (LoadedWithoutProfiles /\ params.build_images) =>
        /\ pc \in {"ic_domain", "ic_images", "failed"}
        /\ pc = "failed" => error = "KeyError"
        /\ ~Synthesized
        /\ disk \in PreviousDisk
        /\ Ops("render.render_template") = {}
        /\ Ops("deploy.deploy_configuration") = {}

C12_Witness ==
    /\ LoadedWithoutProfiles
    /\ params.build_images
    /\ pc = "failed"
    /\ error = "KeyError"
    /\ HasKey(config, "default_images")
    /\ config.v["default_images"] = DefaultImages(image_tag)


\* git.is_git_repo returned None in this run
NoRepository == \E i \in Ops("git.is_git_repo") : calls[i].args[1] = ""

\* C13: when git.is_git_repo returns None the run has failed with QHubError and
\* git.is_git_repo is the only call of the run: no revision read, no cluster start,
\* no build, no synthesis, no render, no deploy, no file written.
C13_NoRepositoryAborts ==
    NoRepository =>
        /\ pc = "failed"
        /\ error = "QHubError: QHub develop required to run within QHub git repository"
        /\ Len(calls) = 1
        /\ image_tag = ""
        /\ config = Null
        /\ disk \in PreviousDisk

C13_Witness ==
    /\ NoRepository
    /\ params.build_images
    /\ params.verbose


\* the operations of the cluster provider that develop calls
MinikubeOps == {"minikube.start", "minikube.status", "minikube.configure_metallb",
                "minikube.addons_enable", "minikube.image_build",
                "minikube.download_minikube_binary"}

\* C14: once minikube.start has succeeded, every call develop makes to the cluster
\* provider is one of start, status, configure_metallb, addons_enable, image_build
\* and download_minikube_binary: the cluster is never stopped or deleted, whether the
\* run ends in success or in the failure of a later stage.
C14_NoTeardown ==
    OkOps("minikube.start") # {} =>
        \A j \in 1..Len(calls) :
            /\ StartsWith(calls[j].op, "minikube.") => calls[j].op \in MinikubeOps
            /\ calls[j].op \notin {"minikube.stop", "minikube.delete"}

C14_Witness ==
    /\ OkOps("minikube.start") # {}
    /\ FailedOps("deploy.deploy_configuration") # {}
    /\ pc = "failed"


\* the operations that carry out the stages of the pipeline
ReportedStages == {"minikube.start", "minikube.image_build", "initialize_configuration",
                   "render.render_template", "deploy.deploy_configuration"}

\* C15 as stated: with verbose disabled no progress message is emitted (the closing
\* message after download_minikube_binary aside); with verbose enabled every stage
\* operation has a start message of its own before it, a stage operation that
\* succeeded is followed by an end message, and one that failed by none.
C15_EveryStageReported ==
    /\ ~params.verbose =>
        \A i \in 1..Len(calls) :
            /\ calls[i].op \notin {"timer.in_progress", "timer.completed"}
            /\ calls[i].op = "console.print" =>
                i > 1 /\ calls[i - 1].op = "minikube.download_minikube_binary"
    /\ params.verbose =>
        \A i \in 1..Len(calls) : calls[i].op \in ReportedStages =>
            /\ \E j \in 1..(i - 1) :
                /\ calls[j].op = "timer.in_progress"
                /\ \A m \in (j + 1)..(i - 1) : calls[m].op \notin ReportedStages
            /\ (calls[i].ok /\ calls[i].op \in {"minikube.image_build",
                    "render.render_template", "deploy.deploy_configuration"}) =>
                \E j \in (i + 1)..Len(calls) :
                    /\ calls[j].op = "timer.completed"
                    /\ \A m \in (i + 1)..(j - 1) : calls[m].op \notin ReportedStages
            /\ ~calls[i].ok =>
                \A j \in (i + 1)..Len(calls) : calls[j].op # "timer.completed"


\* an entry whose name begins with the definition prefix
HasDefinitionPrefix(entry) == StartsWith(entry, "Dockerfile")

\* C16: after list_dockerfile_images has run on a listing with N entries that begin
\* with "Dockerfile", both results have length N, the i-th path and the i-th name are
\* those of the i-th such entry of the listing, the results are those of the listing
\* with every other entry removed, and both are empty when N = 0.
C16_DiscoveryMatchesListing ==
    \A c \in OkOps("os.listdir") :
        LET dir      == calls[c].args[1]
            listing  == calls[c].args[2]
            matching == {m \in 1..Len(listing) : HasDefinitionPrefix(listing[m])}
            N        == Cardinality(matching)
            Kth(k)   == CHOOSE m \in matching : Cardinality({x \in matching : x <= m}) = k
            alone    == list_dockerfile_images(dir, SelectSeq(listing, HasDefinitionPrefix))
        IN  /\ Len(dockerfile_paths) = N
            /\ Len(image_names) = N
            /\ \A k \in 1..N :
                /\ dockerfile_paths[k] = dir \o listing[Kth(k)]
                /\ image_names[k] = ImageName(listing[Kth(k)])
            /\ alone.paths = dockerfile_paths
            /\ alone.names = image_names
            /\ N = 0 => dockerfile_paths = <<>> /\ image_names = <<>>

C16_Witness ==
    \E c \in OkOps("os.listdir") :
        /\ Len(calls[c].args[2]) = 7
        /\ Len(image_names) = 5
        /\ image_names[3] = "dask-worker"
        /\ BaseName(dockerfile_paths[3]) = "Dockerfile.dask-worker"


\* C17: with build_images false the image directory is never listed and
\* minikube.image_build never called, and after minikube.addons_enable has returned
\* (and the timer of the cluster stage has closed) the next call develop makes is
\* initialize_configuration.
C17_BuildSkipped ==
    ~params.build_images =>
        /\ Ops("os.listdir") = {}
        /\ Ops("minikube.image_build") = {}
        /\ dockerfile_paths = <<>> /\ image_names = <<>>
        /\ \A i \in 1..Len(calls) : calls[i] # ConsoleRule("Building Docker images")
        /\ \A a \in OkOps("minikube.addons_enable") :
            LET n == a + Len(TimerExit("Created Minikube cluster", params.verbose)) IN
            IF Len(calls) = n
            THEN pc \in {"build_stage", "initialize"} /\ error = ""
            ELSE /\ calls[n + 1] = ConsoleRule("Installing QHub")
                 /\ calls[n + 2].op = "initialize_configuration"

C17_Witness ==
    /\ ~params.build_images
    /\ OkOps("minikube.status") # {}
    /\ Ops("initialize_configuration") # {}
    /\ pc = "done"


\* the operations develop performs once per run
OncePerRun == {"git.is_git_repo", "git.current_sha", "minikube.start", "minikube.status",
               "minikube.configure_metallb", "minikube.addons_enable", "os.listdir",
               "initialize_configuration", "yaml.dump", "render.render_template",
               "deploy.deploy_configuration", "minikube.download_minikube_binary"}

\* C18: every operation of the pipeline is called at most once in a run and
\* minikube.image_build at most once for each discovered definition; a call that
\* failed is the last operation of the run, and the run has ended in its error.
C18_NoRetry ==
    /\ \A op \in OncePerRun : Cardinality(Ops(op)) <= 1
    /\ Cardinality(Ops("minikube.image_build")) <= Len(dockerfile_paths)
    /\ \A i, j \in Ops("minikube.image_build") :
        calls[i].args[1] = calls[j].args[1] => i = j
    /\ \A i \in 1..Len(calls) : ~calls[i].ok =>
        /\ pc = "failed"
        /\ error # ""
        /\ \A j \in (i + 1)..Len(calls) : calls[j].op = "utils.change_directory.exit"
    /\ pc = "failed" <=> error # ""

C18_Witness ==
    /\ FailedOps("render.render_template") # {}
    /\ Cardinality(OkOps("minikube.image_build")) >= 2
    /\ pc = "failed"


\* the domain, default images and profile images of a document
MutatedFields(doc) ==
    [domain         |-> IF HasKey(doc, "domain") THEN doc.v["domain"] ELSE Absent,
     default_images |-> DefaultImagesOf(doc),
     jupyterlab     |-> JupyterlabImages(doc),
     dask_worker    |-> DaskWorkerImages(doc)]

\* C19: once qhub-config.yaml is written the in-memory document stays the one that
\* was written, and the document handed to deploy_configuration agrees in domain,
\* default images and every profile image with the file read back, which is the
\* file render_template was pointed at.
C19_DeployedIsPersisted ==
    Synthesized =>
        LET w       == CHOOSE i \in OkOps("yaml.dump") : TRUE
            written == calls[w].args[2]
        IN  /\ config = written
            /\ disk.exists
            /\ MutatedFields(PersistedDoc) = MutatedFields(written)
            /\ \A r \in Ops("render.render_template") : calls[r].args[2] = calls[w].args[1]
            /\ \A d \in Ops("deploy.deploy_configuration") :
                /\ calls[d].args[1] = written
                /\ MutatedFields(calls[d].args[1]) = MutatedFields(PersistedDoc)

C19_Witness ==
    /\ OkOps("deploy.deploy_configuration") # {}
    /\ params.build_images
    /\ base_config = FullDoc
    /\ MutatedFields(config) # MutatedFields(base_config)


\* the base document with every override of this run applied
FullyOverridden ==
    IF params.build_images
    THEN OverrideImages(SetDomain(base_config, params.domain), image_tag)
    ELSE SetDomain(base_config, params.domain)

\* C20: qhub-config.yaml changes only in the persist step of
\* initialize_configuration, and what is written then is the base document with the
\* domain and (when build_images) every image override applied; a step in which the
\* domain or image override fails writes nothing and leaves the file as it was.
C20_PersistAfterOverrides ==
    [][/\ disk' # disk =>
            /\ pc = "ic_persist" /\ pc' = "render_template"
            /\ SetDomainError(base_config) = ""
            /\ params.build_images =>
                OverrideImagesError(SetDomain(base_config, params.domain)) = ""
            /\ disk'.exists
            /\ disk'.lines = yaml_dump(FullyOverridden)
       /\ (pc \in {"ic_domain", "ic_images"} /\ pc' = "failed") =>
            /\ disk' = disk
            /\ calls' = calls
            /\ Ops("yaml.dump") = {}
      ]_vars

C20_Witness ==
    /\ pc = "failed"
    /\ error \in {"KeyError", "TypeError"}
    /\ Ops("initialize_configuration") # {}
    /\ disk.exists
    /\ disk \in PreviousDisk
    /\ config # base_config
    /\ config.t = "map"
    /\ config.v["domain"] = Str(params.domain)

====
